---- MODULE Spec2Model ----
(***************************************************************************)
(* A model of the Obsidian "Easy Paper Importer" plugin: DOI parsing, the  *)
(* duplicate index (PaperIndex), the note writer (createPaperNote), the    *)
(* import flow of the DOI modal (DoiInputModal.submit) and the persisted   *)
(* data blob (loadData / saveData).                                        *)
(*                                                                         *)
(* Strings are sequences of one-character strings, so that trimming,       *)
(* lower-casing and prefix stripping are computed as the code computes     *)
(* them.                                                                   *)
(***************************************************************************)
EXTENDS Integers, Sequences, FiniteSets, TLC

(***************************************************************************)
(* Strings                                                                 *)
(***************************************************************************)

UpperChars == <<"A","B","C","D","E","F","G","H","I","J","K","L","M",
                "N","O","P","Q","R","S","T","U","V","W","X","Y","Z">>

LowerChars == <<"a","b","c","d","e","f","g","h","i","j","k","l","m",
                "n","o","p","q","r","s","t","u","v","w","x","y","z">>

Digits == {"0","1","2","3","4","5","6","7","8","9"}

\* String.prototype.toLowerCase on one character.
LowerChar(c) ==
    IF \E i \in 1..Len(UpperChars) : UpperChars[i] = c
    THEN LowerChars[CHOOSE i \in 1..Len(UpperChars) : UpperChars[i] = c]
    ELSE c

\* String.prototype.toLowerCase.
ToLower(s) == [i \in 1..Len(s) |-> LowerChar(s[i])]

\* The characters \s matches (those that occur in the model's strings).
IsSpace(c) == c \in {" ", "\t"}

SetMin(S) == CHOOSE x \in S : \A y \in S : x <= y

SetMax(S) == CHOOSE x \in S : \A y \in S : y <= x

\* String.prototype.trim.
Trim(s) ==
    LET keep == {i \in 1..Len(s) : ~IsSpace(s[i])}
    IN  IF keep = {} THEN <<>> ELSE SubSeq(s, SetMin(keep), SetMax(keep))

\* s with its leading white space removed (the \s* of a regular expression).
DropLeadingSpace(s) ==
    LET keep == {i \in 1..Len(s) : ~IsSpace(s[i])}
    IN  IF keep = {} THEN <<>> ELSE SubSeq(s, SetMin(keep), Len(s))

\* The literal p occurs in s at position i.
MatchAt(s, p, i) ==
    /\ i >= 1
    /\ i + Len(p) - 1 <= Len(s)
    /\ \A k \in 1..Len(p) : s[i + k - 1] = p[k]

\* The same, ignoring case (the i flag); p is given in lower case.
MatchAtNoCase(s, p, i) ==
    /\ i >= 1
    /\ i + Len(p) - 1 <= Len(s)
    /\ \A k \in 1..Len(p) : LowerChar(s[i + k - 1]) = p[k]

StartsWith(s, p) == MatchAt(s, p, 1)

DropFirst(s, n) == SubSeq(s, n + 1, Len(s))

(***************************************************************************)
(* DOI parsing (the fetcher) and key normalisation (the index)             *)
(***************************************************************************)

DoiOrgSlash == <<"d","o","i",".","o","r","g","/">>

SchemeHttps == <<"h","t","t","p","s",":","/","/">>

SchemeHttp == <<"h","t","t","p",":","/","/">>

DxDot == <<"d","x",".">>

DoiColon == <<"d","o","i",":">>

\* /^(10\.\d{4,}(?:\.\d+)*\/.+)$/ : "10." then groups of digits separated by
\* dots, the first of four digits or more, then "/" and one character or more.
DoiShape(s) ==
    \E j \in 4..Len(s) :
        /\ s[j] = "/"
        /\ j < Len(s)
        /\ StartsWith(s, <<"1","0",".">>)
        /\ \A k \in 4..(j - 1) : s[k] \in Digits \cup {"."}
        /\ j - 1 >= 7
        /\ \A k \in 4..7 : s[k] \in Digits
        /\ s[j - 1] # "."
        /\ \A k \in 4..(j - 2) : ~(s[k] = "." /\ s[k + 1] = ".")

\* The positions at which /(?:https?:\/\/)?(?:dx\.)?doi\.org\/(.+)/i finds
\* "doi.org/" followed by one character or more.
UrlMatches(s) ==
    {i \in 1..Len(s) : MatchAtNoCase(s, DoiOrgSlash, i) /\ i + Len(DoiOrgSlash) <= Len(s)}

\* parseDoi: the text after the first "doi.org/" when there is one, else the
\* trimmed input (which is also what the bare-DOI branch returns).
parseDoi(input) ==
    LET trimmed == Trim(input)
    IN  IF UrlMatches(trimmed) # {}
        THEN DropFirst(trimmed, SetMin(UrlMatches(trimmed)) + Len(DoiOrgSlash) - 1)
        ELSE IF DoiShape(trimmed) THEN trimmed
        ELSE trimmed

\* s.replace(/^https?:\/\/(dx\.)?doi\.org\//, "")
StripUrlPrefix(s) ==
    LET prefixes == {SchemeHttps \o DxDot \o DoiOrgSlash, SchemeHttps \o DoiOrgSlash,
                     SchemeHttp \o DxDot \o DoiOrgSlash, SchemeHttp \o DoiOrgSlash}
        hit == {p \in prefixes : StartsWith(s, p)}
    IN  IF hit = {} THEN s ELSE DropFirst(s, Len(CHOOSE p \in hit : TRUE))

\* s.replace(/^doi:\s*/, "")
StripDoiColon(s) ==
    IF StartsWith(s, DoiColon) THEN DropLeadingSpace(DropFirst(s, Len(DoiColon))) ELSE s

\* normaliseDoi with the trim moved after the prefix stripping.
normaliseDoi_TrimLast(s) ==
    IF s = <<>> THEN <<>>
    ELSE Trim(StripDoiColon(StripUrlPrefix(ToLower(s))))

\* PaperIndex.normaliseDoi
normaliseDoi(s) ==
    IF s = <<>> THEN <<>>
    ELSE StripDoiColon(StripUrlPrefix(Trim(ToLower(s))))

\* PaperIndex.normalise
normalise(s) == Trim(ToLower(s))

(***************************************************************************)
(* Inputs of the DOI functions: concatenations of a few pieces             *)
(***************************************************************************)

MaxPieces == 3

BareDoiA == <<"1","0",".","1","/","a">>

BareDoiB == <<"1","0",".","1","0","0","0","/","B">>

BareDois == {BareDoiA, BareDoiB}

\* The DOI of the end-to-end scenario.
ExampleDoi == <<"1","0",".","1","0","3","8","/","s","4","1","5","8","6","-","0","2","0","-",
                "2","6","4","9","-","2">>

DoiPieces ==
    { SchemeHttps \o DoiOrgSlash,
      SchemeHttp \o DxDot \o DoiOrgSlash,
      <<"D","X",".","D","O","I",".","O","R","G","/">>,
      DoiColon,
      <<" ">>,
      BareDoiA,
      BareDoiB }

RECURSIVE Concats(_)
\* Every concatenation of at most n pieces.
Concats(n) ==
    IF n = 0 THEN {<<>>}
    ELSE LET shorter == Concats(n - 1)
         IN  shorter \cup {p \o s : p \in DoiPieces, s \in shorter}

DoiInputs == Concats(MaxPieces)

(***************************************************************************)
(* Paths, notes and the host's metadata cache                              *)
(***************************************************************************)

Slash == <<"/">>

DotMd == <<".","m","d">>

\* A file path is a folder and a file name without its ".md" extension;
\* PathStr is the path as the host spells it (normalizePath of dir/name.md).
PathStr(p) == p.dir \o Slash \o p.name \o DotMd

\* TFile.name
FileName(p) == p.name \o DotMd

\* PaperIndex.getFileTitle: f.name.replace(/\.[^/.]+$/, ""), the name with its
\* last extension removed.
getFileTitle(p) ==
    LET n == FileName(p)
        dots == {i \in 1..Len(n) : /\ n[i] = "."
                                   /\ i < Len(n)
                                   /\ \A k \in (i + 1)..Len(n) : n[k] \notin {"/", "."}}
    IN  IF dots = {} THEN n ELSE SubSeq(n, 1, SetMin(dots) - 1)

\* The frontmatter of a file with no cache entry, or with no frontmatter:
\* (cache && cache.frontmatter) || {} ; an absent key reads as "".
NoFm == [doi |-> <<>>, title |-> <<>>]

\* app.metadataCache.getFileCache(f)?.frontmatter, from the cache c.
getFileCache(c, p) == IF p \in DOMAIN c THEN c[p] ELSE NoFm

(***************************************************************************)
(* PaperIndex: the two key -> path mappings                                *)
(***************************************************************************)

EmptyMap == [k \in {} |-> <<>>]

EmptyIndex == [byDOI |-> EmptyMap, byTitle |-> EmptyMap]

\* m[k] = v
MapPut(m, k, v) == [x \in DOMAIN m \cup {k} |-> IF x = k THEN v ELSE m[x]]

\* delete m[k] for every k with m[k] === path
MapDropPath(m, path) == [k \in {x \in DOMAIN m : m[x] # path} |-> m[k]]

\* PaperIndex.removePathFromIndex
removePathFromIndex(idx, path) ==
    [byDOI |-> MapDropPath(idx.byDOI, path), byTitle |-> MapDropPath(idx.byTitle, path)]

\* An indexFile that keeps the path a key already has.
indexFile_KeepsFirst(idx, p, fm) ==
    LET doi == normaliseDoi(fm.doi)
        title == normalise(IF fm.title # <<>> THEN fm.title ELSE getFileTitle(p))
    IN  [byDOI |-> IF doi # <<>> /\ doi \notin DOMAIN idx.byDOI
                   THEN MapPut(idx.byDOI, doi, p) ELSE idx.byDOI,
         byTitle |-> IF title # <<>> /\ title \notin DOMAIN idx.byTitle
                     THEN MapPut(idx.byTitle, title, p) ELSE idx.byTitle]

\* PaperIndex.indexFile, fm being the frontmatter the metadata cache yields.
indexFile(idx, p, fm) ==
    LET doi == normaliseDoi(fm.doi)
        title == normalise(IF fm.title # <<>> THEN fm.title ELSE getFileTitle(p))
    IN  [byDOI |-> IF doi # <<>> THEN MapPut(idx.byDOI, doi, p) ELSE idx.byDOI,
         byTitle |-> IF title # <<>> THEN MapPut(idx.byTitle, title, p) ELSE idx.byTitle]

\* No path (null, or a variable not yet set).
NoPath == [dir |-> <<>>, name |-> <<>>]

NoDup == [type |-> "none", path |-> NoPath]

\* findDuplicate that looks the title up first.
findDuplicate_TitleFirst(idx, q) ==
    LET d == normaliseDoi(q.doi)
        t == normalise(q.title)
    IN  IF t # <<>> /\ t \in DOMAIN idx.byTitle
        THEN [type |-> "title", path |-> idx.byTitle[t]]
        ELSE IF d # <<>> /\ d \in DOMAIN idx.byDOI
        THEN [type |-> "doi", path |-> idx.byDOI[d]]
        ELSE NoDup

\* PaperIndex.findDuplicate; NoDup stands for null.
findDuplicate(idx, q) ==
    LET d == normaliseDoi(q.doi)
        t == normalise(q.title)
    IN  IF d # <<>> /\ d \in DOMAIN idx.byDOI
        THEN [type |-> "doi", path |-> idx.byDOI[d]]
        ELSE IF t # <<>> /\ t \in DOMAIN idx.byTitle
        THEN [type |-> "title", path |-> idx.byTitle[t]]
        ELSE NoDup

(***************************************************************************)
(* The metadata service's answer and the fetcher's mapping of it           *)
(***************************************************************************)

\* The works the metadata service knows, by DOI (compared ignoring case, as
\* DOIs are). Two papers by first authors of the same surname and year, whose
\* titles differ only in a character that is illegal in a file name.
WorkA == [title |-> << <<"T">> >>,
          author |-> << [given |-> <<"J">>, family |-> <<"D">>] >>,
          year |-> <<2020>>]

WorkB == [title |-> << <<"T","?">> >>,
          author |-> << [given |-> <<"K">>, family |-> <<"D">>],
                        [given |-> <<"L">>, family |-> <<"M">>] >>,
          year |-> <<2020>>]

\* The record of the end-to-end scenario.
WorkExample ==
    [title |-> << <<"E","x","a","m","p","l","e"," ","P","a","p","e","r">> >>,
     author |-> << [given |-> <<"J","a","n","e">>, family |-> <<"D","o","e">>] >>,
     year |-> <<2020>>]

WorkOf(doi) ==
    CASE ToLower(doi) = ToLower(BareDoiA) -> WorkA
      [] doi = ExampleDoi -> WorkExample
      [] OTHER -> WorkB

KnownDoi(doi) == ToLower(doi) \in {ToLower(BareDoiA), ToLower(BareDoiB), ExampleDoi}

\* [a.given, a.family].filter(Boolean).join(" ")
AuthorName(a) ==
    IF a.given # <<>> /\ a.family # <<>> THEN a.given \o <<" ">> \o a.family
    ELSE a.given \o a.family

\* parseCrossRefResponse of a work that holds title, author and a year: the
\* other fields get their defaults, the two URLs are the DOI's; year and month
\* are <<>> for null.
parseCrossRefResponse(work, doi) ==
    [title |-> IF Len(work.title) > 0 THEN work.title[1] ELSE <<"U","n","t","i","t","l","e","d">>,
     authors |-> [i \in 1..Len(work.author) |-> AuthorName(work.author[i])],
     abstract |-> <<>>,
     journal |-> <<>>,
     volume |-> <<>>,
     issue |-> <<>>,
     pages |-> <<>>,
     year |-> work.year,
     month |-> <<>>,
     doi |-> doi,
     doiUrl |-> SchemeHttps \o DoiOrgSlash \o doi,
     pdfUrl |-> SchemeHttps \o DoiOrgSlash \o doi,
     publisher |-> <<>>,
     issn |-> <<>>,
     subjects |-> <<>>]

(***************************************************************************)
(* The note renderer: file name and frontmatter                            *)
(***************************************************************************)

FilenameCap == 200

IllegalChars == {"\\", "/", ":", "*", "?", "\"", "<", ">", "|"}

RECURSIVE CollapseSpace(_)
\* s.replace(/\s+/g, " ")
CollapseSpace(s) ==
    IF s = <<>> THEN <<>>
    ELSE IF IsSpace(s[1])
         THEN <<" ">> \o CollapseSpace(DropLeadingSpace(s))
         ELSE <<s[1]>> \o CollapseSpace(Tail(s))

\* sanitiseFilename
sanitiseFilename(name) ==
    LET legal == SelectSeq(name, LAMBDA c : c \notin IllegalChars)
        t == Trim(CollapseSpace(legal))
    IN  SubSeq(t, 1, IF Len(t) < FilenameCap THEN Len(t) ELSE FilenameCap)

\* getAuthorSurname: the last white-space separated part, one trailing
\* ".", "," or ";" removed.
getAuthorSurname(name) ==
    IF name = <<>> THEN <<>>
    ELSE LET t == Trim(name)
             sp == {i \in 1..Len(t) : IsSpace(t[i])}
             last == IF sp = {} THEN t ELSE SubSeq(t, SetMax(sp) + 1, Len(t))
         IN  IF last # <<>> /\ last[Len(last)] \in {".", ",", ";"}
             THEN SubSeq(last, 1, Len(last) - 1)
             ELSE last

DigitChars == <<"0","1","2","3","4","5","6","7","8","9">>

RECURSIVE NumToStr(_)
\* String(n) of a natural number.
NumToStr(n) ==
    IF n < 10 THEN <<DigitChars[n + 1]>>
    ELSE NumToStr(n \div 10) \o <<DigitChars[(n % 10) + 1]>>

\* The value renderFilenameTemplate puts for a {{token}}.
FilenameToken(token, paper) ==
    CASE token = "{{title}}" -> paper.title
      [] token = "{{year}}" -> IF paper.year # <<>> THEN NumToStr(paper.year[1]) ELSE <<>>
      [] token = "{{doi}}" -> paper.doi
      [] token \in {"{{authors}}", "{{first_authors}}", "{{first_author}}"} ->
            IF Len(paper.authors) = 0 THEN <<>> ELSE getAuthorSurname(paper.authors[1])
      [] OTHER -> <<>>

\* The {{...}} items a template of the model may hold; the last is a name the
\* renderer does not know.
TemplateTokens == {"{{title}}", "{{year}}", "{{doi}}", "{{authors}}",
                   "{{first_authors}}", "{{first_author}}", "{{journal}}"}

RECURSIVE RenderItems(_, _)
RenderItems(items, paper) ==
    IF items = <<>> THEN <<>>
    ELSE (IF items[1] \in TemplateTokens THEN FilenameToken(items[1], paper) ELSE <<items[1]>>)
         \o RenderItems(Tail(items), paper)

\* renderFilenameTemplate. A template is a sequence of items, each one
\* character or one {{token}} (what /{{\s*(\w+)\s*}}/g matches).
renderFilenameTemplate(template, paper) == RenderItems(template, paper)

UntitledPaper == <<"U","n","t","i","t","l","e","d"," ","P","a","p","e","r">>

\* The file name createPaperNote computes (without ".md").
NoteFilename(paper, st) ==
    LET rendered == renderFilenameTemplate(st.noteTitleFormat, paper)
        rawName == IF rendered # <<>> THEN rendered ELSE paper.title
    IN  IF sanitiseFilename(rawName) # <<>> THEN sanitiseFilename(rawName)
        ELSE IF sanitiseFilename(paper.title) # <<>> THEN sanitiseFilename(paper.title)
        ELSE UntitledPaper

\* The n-th path createPaperNote tries: filename.md, then "filename (n).md".
Candidate(folder, filename, n) ==
    [dir |-> folder,
     name |-> IF n = 0 THEN filename
              ELSE filename \o <<" ", "(">> \o NumToStr(n) \o <<")">>]

\* A writer whose first suffix is (2): the counter is raised before it is used.
FreePath_SkipsOne(files, folder, filename) ==
    LET n == CHOOSE k \in 0..Cardinality(files) :
                 /\ Candidate(folder, filename, IF k = 0 THEN 0 ELSE k + 1) \notin files
                 /\ \A j \in 0..(k - 1) :
                        Candidate(folder, filename, IF j = 0 THEN 0 ELSE j + 1) \in files
    IN  Candidate(folder, filename, IF n = 0 THEN 0 ELSE n + 1)

\* The path the while loop of createPaperNote ends with: the first candidate
\* at which getAbstractFileByPath finds nothing.
FreePath(files, folder, filename) ==
    LET n == CHOOSE k \in 0..Cardinality(files) :
                 /\ Candidate(folder, filename, k) \notin files
                 /\ \A j \in 0..(k - 1) : Candidate(folder, filename, j) \in files
    IN  Candidate(folder, filename, n)

\* The frontmatter of the note buildFrontmatter writes, as the metadata cache
\* parses it back: the doi and title keys, each emitted only when it is among
\* settings.metadataFields and its value is not empty.
buildFrontmatter(paper, st) ==
    LET has(k) == \E i \in 1..Len(st.metadataFields) : st.metadataFields[i] = k
    IN  [doi |-> IF has("doi") THEN paper.doi ELSE <<>>,
         title |-> IF has("title") THEN paper.title ELSE <<>>]

(***************************************************************************)
(* The metadata normaliser                                                 *)
(***************************************************************************)

\* The keys of PaperMetadata, by declared type.
StringKeys == {"title", "abstract", "journal", "volume", "issue", "pages", "doi", "doiUrl",
               "pdfUrl", "publisher"}

ArrayKeys == {"authors", "issn", "subjects"}

NumberKeys == {"year", "month"}

PaperKeys == StringKeys \cup ArrayKeys \cup NumberKeys

\* JavaScript values: null, a string, a number, an array. A record that lacks a
\* key has undefined there.
\* (t: the type; s: the characters of a string; n: a number; a: the elements of
\* an array.)
JsNull == [t |-> "null", s |-> <<>>, n |-> 0, a |-> <<>>]

JsStr(str) == [t |-> "string", s |-> str, n |-> 0, a |-> <<>>]

JsNum(num) == [t |-> "number", s |-> <<>>, n |-> num, a |-> <<>>]

JsArr(elems) == [t |-> "array", s |-> <<>>, n |-> 0, a |-> elems]

\* String(x) of a string, a natural number or null.
JsToString(x) ==
    CASE x.t = "string" -> x.s
      [] x.t = "number" -> NumToStr(x.n)
      [] OTHER -> <<"n","u","l","l">>

\* raw.k ?? d is d: the key is missing (undefined) or holds null.
Nullish(raw, k) == k \notin DOMAIN raw \/ raw[k].t = "null"

\* A normaliser that defaults the arrays and does not map String over them.
normalizePaper_NoMap(raw) ==
    [k \in PaperKeys |->
        CASE k \in StringKeys ->
                JsStr(IF Nullish(raw, k) THEN <<>> ELSE JsToString(raw[k]))
          [] k \in ArrayKeys -> IF Nullish(raw, k) THEN JsArr(<<>>) ELSE raw[k]
          [] OTHER -> IF Nullish(raw, k) THEN JsNull ELSE raw[k]]

\* normalizePaper: String(raw.k ?? "") for the string keys, (raw.k ?? []).map(
\* String) for the array keys, raw.k ?? null for year and month.
normalizePaper(raw) ==
    [k \in PaperKeys |->
        CASE k \in StringKeys ->
                JsStr(IF Nullish(raw, k) THEN <<>> ELSE JsToString(raw[k]))
          [] k \in ArrayKeys ->
                JsArr(IF Nullish(raw, k) THEN <<>>
                      ELSE [i \in 1..Len(raw[k].a) |-> JsStr(JsToString(raw[k].a[i]))])
          [] OTHER -> IF Nullish(raw, k) THEN JsNull ELSE raw[k]]

\* A paper whose fields are plain (a string as its characters, an array as the
\* sequence of its strings, year and month as <<>> for null or <<n>>), as
\* JavaScript values.
RawOf(p) ==
    [k \in DOMAIN p |->
        CASE k \in StringKeys -> JsStr(p[k])
          [] k \in ArrayKeys -> JsArr([i \in 1..Len(p[k]) |-> JsStr(p[k][i])])
          [] OTHER -> IF p[k] = <<>> THEN JsNull ELSE JsNum(p[k][1])]

\* A normalised paper with plain fields.
PlainOf(paper) ==
    [k \in DOMAIN paper |->
        CASE k \in StringKeys -> paper[k].s
          [] k \in ArrayKeys -> [i \in 1..Len(paper[k].a) |-> paper[k].a[i].s]
          [] OTHER -> IF paper[k].t = "null" THEN <<>> ELSE <<paper[k].n>>]

\* const safe = normalizePaper(paper), for a paper with plain fields.
SafePaper(p) == PlainOf(normalizePaper(RawOf(p)))

(***************************************************************************)
(* The frontmatter builder: the lines it emits                             *)
(***************************************************************************)

\* The names fieldRenderers defines.
Vocabulary == {"title", "authors", "journal", "year", "volume", "issue", "pages", "publisher",
               "doi", "url", "pdf", "issn", "tags"}

\* The key of the paper a renderer reads.
SourceKey(field) ==
    CASE field = "url" -> "doiUrl"
      [] field = "pdf" -> "pdfUrl"
      [] field = "tags" -> "subjects"
      [] OTHER -> field

\* A renderer returns a line: the string is not empty, the list has an
\* element, year is not null.
Renders(field, paper) == paper[SourceKey(field)] # <<>>

\* What the loop over settings.metadataFields does with one name:
\* fieldRenderers[field] is an own renderer, or undefined (skipped), or what
\* the object literal inherits: Object.prototype.toString, which returns the
\* text "[object Undefined]", and __proto__, which is no function, so that
\* render() throws.
FieldLine(field, paper) ==
    CASE field \in Vocabulary -> IF Renders(field, paper) THEN <<field>> ELSE <<>>
      [] field = "toString" -> <<"[object Undefined]">>
      [] OTHER -> <<>>

RECURSIVE FieldLines(_, _)
FieldLines(fields, paper) ==
    IF fields = <<>> THEN <<>>
    ELSE FieldLine(Head(fields), paper) \o FieldLines(Tail(fields), paper)

\* buildFrontmatter as the key of each line between the --- lines, in order
\* (a line that has no key as its text), and whether it threw.
FrontmatterLines(paper, st) ==
    [threw |-> \E i \in 1..Len(st.metadataFields) : st.metadataFields[i] = "__proto__",
     lines |-> FieldLines(st.metadataFields, paper)
               \o (IF st.includeImportDate THEN <<"date_imported">> ELSE <<>>)]

(***************************************************************************)
(* Settings                                                                *)
(***************************************************************************)

PapersFolder == <<"P","a","p","e","r","s">>

DEFAULT_SETTINGS ==
    [paperFolder |-> PapersFolder,
     noteTitleFormat |-> <<"{{first_authors}}", "_", "{{year}}">>,
     metadataFields |-> <<"title", "authors", "year", "doi">>,
     includeImportDate |-> TRUE,
     confirmDuplicateImports |-> TRUE]

\* What the settings tab can make of the settings (the values the model draws).
TitleFormats == {DEFAULT_SETTINGS.noteTitleFormat, <<"{{title}}">>}

FieldLists == {DEFAULT_SETTINGS.metadataFields, <<"title", "authors", "year">>}

SettingsChoices ==
    {[DEFAULT_SETTINGS EXCEPT !.noteTitleFormat = f, !.metadataFields = m,
                              !.confirmDuplicateImports = c] :
        f \in TitleFormats, m \in FieldLists, c \in BOOLEAN}

(***************************************************************************)
(* State                                                                   *)
(***************************************************************************)

VARIABLES
    vault,      \* the files of the vault: path -> frontmatter of the file's text
    cache,      \* the host's metadata cache: path -> frontmatter it has parsed
    folderKind, \* what is at settings.paperFolder: "none", "folder" or "file"
    events,     \* vault events emitted and not yet delivered to the plugin
    index,      \* PaperIndex.index (byDOI, byTitle)
    data,       \* data.json: top-level key -> value
    settings,   \* plugin.settings
    imp,        \* the imports (DoiInputModal.submit runs)
    saver,      \* saveSettings: where it is and the blob it read
    opsLeft,    \* vault operations by the user still to come
    pin,        \* a pure function under check: its input
    pres,       \* a pure function under check: its results (applied once, twice)
    pfun,       \* a pure function under check: which one
    query,      \* findDuplicate: the query
    found       \* findDuplicate: the result

sysVars == <<vault, cache, folderKind, events, index, data, settings, imp, saver, opsLeft>>

pureVars == <<pin, pres, pfun, query, found>>

vars == <<vault, cache, folderKind, events, index, data, settings, imp, saver, opsLeft,
          pin, pres, pfun, query, found>>

Imports == {"i1", "i2"}

NoNotice == [kind |-> "none", text |-> "", status |-> 0]

\* An import: where submit() is, the trimmed input, the status requestUrl
\* answered (0: none yet), the duplicate the prompt names, the user's answer to
\* the prompt, the path picked, the last notice, the path onSuccess was called
\* with, the imports that were complete and indexed when this one was
\* submitted, and the steps submit() has started so far, in order.
IdleImport == [pc |-> "idle", input |-> <<>>, status |-> 0, dup |-> NoDup, answer |-> "none",
               filePath |-> NoPath, notice |-> NoNotice, opened |-> NoPath, prior |-> {},
               steps |-> <<>>, tpl |-> "none", body |-> "none"]

IdleSaver == [pc |-> "idle", existing |-> EmptyMap]

\* The DOI functions and findDuplicate at rest.
PureIdle ==
    /\ pin = <<>>
    /\ pres = <<>>
    /\ pfun = "none"
    /\ query = [doi |-> <<>>, title |-> <<>>]
    /\ found = [type |-> "pending", path |-> NoPath]

\* The plugin as constructed, before onload has run.
SysIdle ==
    /\ vault = EmptyMap
    /\ cache = EmptyMap
    /\ folderKind = "none"
    /\ events = <<>>
    /\ index = EmptyIndex
    /\ data = EmptyMap
    /\ settings = DEFAULT_SETTINGS
    /\ imp = [i \in Imports |-> IdleImport]
    /\ saver = IdleSaver
    /\ opsLeft = 0

(***************************************************************************)
(* PaperIndex operations on the whole index, and the persisted blob        *)
(***************************************************************************)

\* PaperIndex.updateIndexForFile without its persist.
updateIndexForFile(idx, p, c) ==
    indexFile(removePathFromIndex(idx, p), p, getFileCache(c, p))

\* (settings.paperFolder || "Papers").replace(/^\/+/, "")
RebuildFolder(st) ==
    LET f == IF st.paperFolder # <<>> THEN st.paperFolder ELSE PapersFolder
        keep == {i \in 1..Len(f) : f[i] # "/"}
    IN  IF keep = {} THEN <<>> ELSE SubSeq(f, SetMin(keep), Len(f))

\* getFiles().filter(f => f.path.startsWith(folder))
FilesUnderFolder(files, st) == {p \in files : StartsWith(PathStr(p), RebuildFolder(st))}

\* The orders in which getFiles() may enumerate the files S.
Orders(S) == {o \in [1..Cardinality(S) -> S] : \A i, j \in 1..Cardinality(S) : o[i] = o[j] => i = j}

RECURSIVE IndexAll(_, _, _)
\* for (const f of files) this.indexFile(f)
IndexAll(idx, order, c) ==
    IF order = <<>> THEN idx
    ELSE IndexAll(indexFile(idx, Head(order), getFileCache(c, Head(order))), Tail(order), c)

\* The index PaperIndex.rebuild builds when getFiles() enumerates in this order.
rebuildIndex(order, c) == IndexAll(EmptyIndex, order, c)

\* What PaperIndex.persist writes: saveData({ index: this.index }).
persist(idx) == [k \in {"index"} |-> idx]

\* What saveSettings writes: { ...existing, ...this.settings }.
MergedBlob(existing, st) ==
    [k \in DOMAIN existing \cup DOMAIN st |-> IF k \in DOMAIN st THEN st[k] ELSE existing[k]]

\* loadSettings: Object.assign({}, DEFAULT_SETTINGS, rest), rest being the blob
\* without its index key.
loadSettings(blob) ==
    LET rest == DOMAIN blob \ {"index"}
    IN  [k \in DOMAIN DEFAULT_SETTINGS \cup rest |->
            IF k \in rest THEN blob[k] ELSE DEFAULT_SETTINGS[k]]

\* PaperIndex.load before its rebuild: the blob's index, if it has one.
loadIndex(blob) == IF "index" \in DOMAIN blob THEN blob["index"] ELSE EmptyIndex

\* A load that looks at byDOI only.
IndexIsEmpty_DoiOnly(idx) == DOMAIN idx.byDOI = {}

\* PaperIndex.load's test: neither map has a key.
IndexIsEmpty(idx) == DOMAIN idx.byDOI = {} /\ DOMAIN idx.byTitle = {}

\* The vault event handlers registered in onload, on the index.
OnCreate(idx, e, c) ==
    IF e.kind = "file" THEN updateIndexForFile(idx, e.path, c) ELSE idx

OnDelete(idx, e) == removePathFromIndex(idx, e.path)

OnRename(idx, e, c) ==
    LET removed == removePathFromIndex(idx, e.oldPath)
    IN  IF e.kind = "file" THEN updateIndexForFile(removed, e.path, c) ELSE removed

FileEvent(type, p, old) == [type |-> type, kind |-> "file", path |-> p, oldPath |-> old]

FolderPath(st) == [dir |-> st.paperFolder, name |-> <<>>]

(***************************************************************************)
(* The host: event delivery and the metadata cache                         *)
(***************************************************************************)

\* The plugin's handler of the oldest undelivered vault event runs: it patches
\* the index and persists it (a created folder is no TFile and is skipped).
HandleEvent ==
    /\ events # <<>>
    /\ LET e == Head(events)
           idx == CASE e.type = "create" -> OnCreate(index, e, cache)
                    [] e.type = "delete" -> OnDelete(index, e)
                    [] OTHER -> OnRename(index, e, cache)
       IN  /\ index' = idx
           /\ data' = IF e.type = "create" /\ e.kind # "file" THEN data ELSE persist(idx)
    /\ events' = Tail(events)
    /\ UNCHANGED <<vault, cache, folderKind, settings, imp, saver, opsLeft, pureVars>>

\* The host parses a file it has not parsed yet (or has parsed an older text
\* of): from then on getFileCache yields the file's frontmatter.
CacheResolve(p) ==
    /\ p \in DOMAIN vault
    /\ getFileCache(cache, p) # vault[p] \/ p \notin DOMAIN cache
    /\ cache' = MapPut(cache, p, vault[p])
    /\ UNCHANGED <<vault, folderKind, events, index, data, settings, imp, saver, opsLeft,
                   pureVars>>

(***************************************************************************)
(* The import flow: DoiInputModal.submit                                   *)
(***************************************************************************)

Statuses == {200, 404, 500}

ImportInputs == {BareDoiA, BareDoiB, ExampleDoi, <<" ">>}

Notice(kind, text, status) == [kind |-> kind, text |-> text, status |-> status]

\* fetchPaperMetadata's result for the text the user entered, on status 200.
PaperOf(input) == parseCrossRefResponse(WorkOf(parseDoi(input)), parseDoi(input))

\* The imports that have completed and whose created file's create event has
\* been delivered.
Indexed ==
    {j \in Imports : /\ imp[j].pc = "done"
                     /\ \A k \in 1..Len(events) : events[k].path # imp[j].filePath}

\* buildBody's templatePath: (settings.templateFilePath || "").trim().
TemplatePathOf(st) ==
    IF "templateFilePath" \in DOMAIN st THEN Trim(st.templateFilePath) ELSE <<>>

EndsWith(s, p) == Len(s) >= Len(p) /\ SubSeq(s, Len(s) - Len(p) + 1, Len(s)) = p

\* buildBody's candidates: the path, and the path with ".md" appended unless
\* it ends with ".md" already.
TemplateCandidates(st) ==
    LET normalised == TemplatePathOf(st)
    IN  {normalised} \cup (IF EndsWith(normalised, DotMd) THEN {} ELSE {normalised \o DotMd})

\* The files of the vault that getAbstractFileByPath yields for a candidate.
TemplateFiles(files, st) == {f \in files : PathStr(f) \in TemplateCandidates(st)}

\* buildBody up to its first wait: without a configured template, or with one
\* that is not a file of the vault (console.warn), the fallback body, which is
\* the empty string, is returned; otherwise vault.read is awaited.
buildBody(r) ==
    CASE TemplatePathOf(settings) = <<>> ->
            [r EXCEPT !.pc = "creating", !.tpl = "none", !.body = "empty"]
      [] TemplateFiles(DOMAIN vault, settings) = {} ->
            [r EXCEPT !.pc = "creating", !.tpl = "missing", !.body = "empty"]
      [] OTHER -> [r EXCEPT !.pc = "reading"]

\* createPaperNote after ensureFolder: the file name is rendered, the while
\* loop picks the first free path, buildBody runs and, unless it waits for the
\* template, vault.create is called with the path.
PickPath(r) ==
    buildBody([r EXCEPT !.filePath = FreePath(DOMAIN vault, settings.paperFolder,
                                    NoteFilename(SafePaper(PaperOf(r.input)), settings))])

\* An ensureFolder that takes whatever is at the folder path for the folder.
BeginWrite_AnyFolder(r) ==
    IF folderKind = "none" THEN [r EXCEPT !.pc = "mkdir", !.steps = Append(@, "write")]
    ELSE PickPath([r EXCEPT !.steps = Append(@, "write")])

\* createPaperNote from its start to its first wait on the host: ensureFolder
\* either calls createFolder, throws, or finds the folder, and in the last case
\* the while loop picks the path and vault.create is called.
BeginWrite(r) ==
    CASE folderKind = "none" -> [r EXCEPT !.pc = "mkdir", !.steps = Append(@, "write")]
      [] folderKind = "file" ->
            [r EXCEPT !.pc = "failed", !.steps = Append(@, "write"),
                      !.notice = Notice("error", "Error importing paper: exists but is not a folder.", 0)]
      [] OTHER -> PickPath([r EXCEPT !.steps = Append(@, "write")])

\* submit(): an empty or blank input ends with a notice; otherwise the fetch
\* is issued.
Submit(i, text) ==
    /\ imp[i].pc = "idle"
    /\ i = "i2" => imp["i1"].pc # "idle"
    /\ imp' = [imp EXCEPT ![i] =
                 IF Trim(text) = <<>>
                 THEN [@ EXCEPT !.notice = Notice("info", "Please enter a DOI.", 0)]
                 ELSE [@ EXCEPT !.pc = "fetching", !.input = Trim(text), !.prior = Indexed,
                                !.steps = <<"fetch">>,
                                !.notice = Notice("info", "Fetching paper metadata", 0)]]
    /\ UNCHANGED <<vault, cache, folderKind, events, index, data, settings, saver, opsLeft,
                   pureVars>>

\* A submit() that goes to createPaperNote without the duplicate lookup.
AfterOk_NoLookup(r) == BeginWrite(r)

\* A submit() that prompts for every duplicate, whatever the setting says.
AfterOk_IgnoresSetting(r) ==
    LET paper == PaperOf(r.input)
        dup == findDuplicate(index, [doi |-> paper.doi, title |-> paper.title])
    IN  IF dup # NoDup
        THEN [r EXCEPT !.pc = "confirming", !.dup = dup,
                       !.steps = @ \o <<"lookup", "prompt">>]
        ELSE BeginWrite([r EXCEPT !.steps = Append(@, "lookup")])

\* After a 200 answer: the duplicate lookup, then the prompt or createPaperNote.
AfterOk(r) ==
    LET paper == PaperOf(r.input)
        dup == findDuplicate(index, [doi |-> paper.doi, title |-> paper.title])
    IN  IF dup # NoDup /\ settings.confirmDuplicateImports
        THEN [r EXCEPT !.pc = "confirming", !.dup = dup,
                       !.steps = @ \o <<"lookup", "prompt">>]
        ELSE BeginWrite([r EXCEPT !.steps = Append(@, "lookup")])

\* A fetch that treats only server errors as failures.
AfterFetch_OnlyServerErrors(r, status) ==
    IF status >= 500
    THEN [r EXCEPT !.pc = "failed", !.status = status,
                   !.notice = Notice("error", "Error importing paper: Failed to fetch DOI metadata: HTTP ", status)]
    ELSE AfterOk([r EXCEPT !.status = status])

\* The import after requestUrl has answered: a status other than 200 throws and
\* the catch block shows the message, which holds the status; on 200 the
\* duplicate lookup runs.
AfterFetch(r, status) ==
    IF status # 200
    THEN [r EXCEPT !.pc = "failed", !.status = status,
                   !.notice = Notice("error", "Error importing paper: Failed to fetch DOI metadata: HTTP ", status)]
    ELSE AfterOk([r EXCEPT !.status = status])

FetchReturn(i, status) ==
    /\ imp[i].pc = "fetching"
    /\ status = 200 => KnownDoi(parseDoi(imp[i].input))
    /\ imp' = [imp EXCEPT ![i] = AfterFetch(@, status)]
    /\ UNCHANGED <<vault, cache, folderKind, events, index, data, settings, saver, opsLeft,
                   pureVars>>

\* A prompt whose answer is not looked at.
AfterDecision_AlwaysImports(r, confirmed) ==
    BeginWrite([r EXCEPT !.answer = IF confirmed THEN "accept" ELSE "cancel"])

\* The import after openAndWait() has resolved: false ends it with a notice,
\* true goes on to createPaperNote.
AfterDecision(r, confirmed) ==
    IF confirmed THEN BeginWrite([r EXCEPT !.answer = "accept"])
    ELSE [r EXCEPT !.pc = "cancelled", !.answer = "cancel",
                   !.notice = Notice("info", "Import cancelled (duplicate detected).", 0)]

\* The user answers the duplicate prompt: Cancel or Import anyway.
Decide(i, confirmed) ==
    /\ imp[i].pc = "confirming"
    /\ imp' = [imp EXCEPT ![i] = AfterDecision(@, confirmed)]
    /\ UNCHANGED <<vault, cache, folderKind, events, index, data, settings, saver, opsLeft,
                   pureVars>>

\* createFolder returns: the folder now exists and the path is picked; if the
\* folder was created meanwhile, createFolder throws.
FolderCreated(i) ==
    /\ imp[i].pc = "mkdir"
    /\ IF folderKind = "none"
       THEN /\ folderKind' = "folder"
            /\ events' = Append(events, [type |-> "create", kind |-> "folder",
                                         path |-> FolderPath(settings), oldPath |-> NoPath])
            /\ imp' = [imp EXCEPT ![i] = PickPath(@)]
       ELSE /\ imp' = [imp EXCEPT ![i] =
                         [@ EXCEPT !.pc = "failed",
                                   !.notice = Notice("error", "Error importing paper: Folder already exists.", 0)]]
            /\ UNCHANGED <<folderKind, events>>
    /\ UNCHANGED <<vault, cache, index, data, settings, saver, opsLeft, pureVars>>

\* A buildBody without the try/catch around vault.read.
AfterTemplateRead_Rethrows(r, ok) ==
    IF ok THEN [r EXCEPT !.pc = "creating", !.tpl = "read", !.body = "template"]
    ELSE [r EXCEPT !.pc = "failed", !.tpl = "unreadable",
                   !.notice = Notice("error", "Error importing paper: read failed.", 0)]

\* buildBody after vault.read: the rendered template is the body; a read that
\* throws is caught (console.warn) and the fallback body is returned.  Either
\* way vault.create is called next.
AfterTemplateRead(r, ok) ==
    IF ok THEN [r EXCEPT !.pc = "creating", !.tpl = "read", !.body = "template"]
    ELSE [r EXCEPT !.pc = "creating", !.tpl = "unreadable", !.body = "empty"]

\* vault.read of the template file returns or throws.
TemplateRead(i, ok) ==
    /\ imp[i].pc = "reading"
    /\ imp' = [imp EXCEPT ![i] = AfterTemplateRead(@, ok)]
    /\ UNCHANGED <<vault, cache, folderKind, events, index, data, settings, saver, opsLeft,
                   pureVars>>

\* vault.create returns: the file exists with the rendered content, the create
\* event is emitted and onSuccess is called; it throws when a file is at the
\* path by now, or when the host cannot write (ioError).
FileCreated(i, ioError) ==
    /\ imp[i].pc = "creating"
    /\ IF imp[i].filePath \in DOMAIN vault \/ ioError
       THEN /\ imp' = [imp EXCEPT ![i] =
                         [@ EXCEPT !.pc = "failed",
                                   !.notice = Notice("error",
                                                     IF imp[i].filePath \in DOMAIN vault
                                                     THEN "Error importing paper: File already exists."
                                                     ELSE "Error importing paper: write failed.",
                                                     0)]]
            /\ UNCHANGED <<vault, events>>
       ELSE /\ vault' = MapPut(vault, imp[i].filePath,
                               buildFrontmatter(SafePaper(PaperOf(imp[i].input)), settings))
            /\ events' = Append(events, FileEvent("create", imp[i].filePath, NoPath))
            /\ imp' = [imp EXCEPT ![i] =
                         [@ EXCEPT !.pc = "done", !.opened = imp[i].filePath,
                                   !.notice = Notice("info", "Imported: ", 0)]]
    /\ UNCHANGED <<cache, folderKind, index, data, settings, saver, opsLeft, pureVars>>

\* The notes an earlier session may have left: none, or paper A's note.
EarlierVaults(st) ==
    {EmptyMap,
     MapPut(EmptyMap,
            FreePath({}, st.paperFolder, NoteFilename(PaperOf(BareDoiA), st)),
            buildFrontmatter(PaperOf(BareDoiA), st))}

\* The plugin after onload: settings loaded, the index rebuilt from the notes
\* of the folder and persisted, no import started.
Init ==
    /\ settings \in SettingsChoices
    /\ folderKind \in {"none", "folder", "file"}
    /\ vault \in (IF folderKind = "folder" THEN EarlierVaults(settings) ELSE {EmptyMap})
    /\ cache = vault
    /\ events = <<>>
    /\ \E o \in Orders(FilesUnderFolder(DOMAIN vault, settings)) : index = rebuildIndex(o, cache)
    /\ data = persist(index)
    /\ imp = [i \in Imports |-> IdleImport]
    /\ saver = IdleSaver
    /\ opsLeft = 0
    /\ PureIdle

Next ==
    \/ \E i \in Imports, text \in ImportInputs : Submit(i, text)
    \/ \E i \in Imports, status \in Statuses : FetchReturn(i, status)
    \/ \E i \in Imports, confirmed \in BOOLEAN : Decide(i, confirmed)
    \/ \E i \in Imports : FolderCreated(i)
    \/ \E i \in Imports, ioError \in BOOLEAN : FileCreated(i, ioError)
    \/ HandleEvent
    \/ \E p \in DOMAIN vault : CacheResolve(p)

Spec == Init /\ [][Next]_vars

(***************************************************************************)
(* The import flow with a body template configured                         *)
(***************************************************************************)

TemplateFolder == <<"T","p","l">>

TemplateFile == [dir |-> TemplateFolder, name |-> <<"T">>]

\* The template paths a data blob may hold: with and without the extension,
\* with blanks around it.
TemplatePathChoices ==
    {TemplateFolder \o Slash \o <<"T">>,
     <<" ">> \o TemplateFolder \o Slash \o <<"T">> \o DotMd \o <<" ">>}

\* The settings loadSettings yields from a blob that has a templateFilePath.
WithTemplate(st, path) ==
    [k \in DOMAIN st \cup {"templateFilePath"} |->
        IF k = "templateFilePath" THEN path ELSE st[k]]

\* The plugin after onload with a template configured; the template file is
\* in the vault or not.
InitBody ==
    /\ settings \in {WithTemplate(DEFAULT_SETTINGS, t) : t \in TemplatePathChoices}
    /\ folderKind \in {"none", "folder"}
    /\ vault \in {EmptyMap, MapPut(EmptyMap, TemplateFile, NoFm)}
    /\ cache = vault
    /\ events = <<>>
    /\ index = rebuildIndex(<<>>, cache)
    /\ data = persist(index)
    /\ imp = [i \in Imports |-> IdleImport]
    /\ saver = IdleSaver
    /\ opsLeft = 0
    /\ PureIdle

NextBody ==
    \/ Next
    \/ \E i \in Imports, ok \in BOOLEAN : TemplateRead(i, ok)

SpecBody == InitBody /\ [][NextBody]_vars

(***************************************************************************)
(* The import flow with a duplicate prompt the user may close              *)
(***************************************************************************)

\* The user closes the duplicate prompt without pressing a button (Escape,
\* the close icon, a click outside): onClose empties the dialog and does not
\* call resolve, so the promise submit() awaits stays pending.
CloseDialog(i) ==
    /\ imp[i].pc = "confirming"
    /\ imp' = [imp EXCEPT ![i] = [@ EXCEPT !.pc = "suspended"]]
    /\ UNCHANGED <<vault, cache, folderKind, events, index, data, settings, saver, opsLeft,
                   pureVars>>

\* The plugin after onload with the default settings (confirmation on) and
\* the folder in place, with paper A's note in it or without.
InitPrompt ==
    /\ Init
    /\ settings = DEFAULT_SETTINGS
    /\ folderKind = "folder"

\* The steps of the import flow when the folder exists (createFolder is never
\* called), and the closing of a prompt.
NextPrompt ==
    \/ \E i \in Imports, text \in ImportInputs : Submit(i, text)
    \/ \E i \in Imports, status \in Statuses : FetchReturn(i, status)
    \/ \E i \in Imports, confirmed \in BOOLEAN : Decide(i, confirmed)
    \/ \E i \in Imports : CloseDialog(i)
    \/ \E i \in Imports, ioError \in BOOLEAN : FileCreated(i, ioError)
    \/ HandleEvent
    \/ \E p \in DOMAIN vault : CacheResolve(p)

\* The steps that take import i on from where it waits: the host's answer to
\* its fetch or to vault.create, or the user's dismissal of its prompt.  At
\* most one kind is enabled at a time.
Progress(i) ==
    \/ \E status \in Statuses \ {200} : FetchReturn(i, status)
    \/ FetchReturn(i, 200)
    \/ FileCreated(i, TRUE)
    \/ FileCreated(i, FALSE)
    \/ Decide(i, FALSE)
    \/ Decide(i, TRUE)
    \/ CloseDialog(i)

\* The host answers every request it was given and the user does not leave
\* an open prompt alone forever.
FairPrompt == \A i \in Imports : WF_vars(Progress(i))

SpecPrompt == InitPrompt /\ [][NextPrompt]_vars /\ FairPrompt

(***************************************************************************)
(* The vault changed from outside, the index commands and settings saves   *)
(***************************************************************************)

MaxUserOps == 3

InboxFolder == <<"I","n","b","o","x">>

\* The paths the user works with: two in the papers folder, one outside it.
VaultPaths ==
    {[dir |-> PapersFolder, name |-> <<"N","1">>],
     [dir |-> PapersFolder, name |-> <<"N","2">>],
     [dir |-> InboxFolder, name |-> <<"N","1">>]}

\* The frontmatter of the files the user makes: paper A's, or none.
VaultFrontmatters == {buildFrontmatter(PaperOf(BareDoiA), DEFAULT_SETTINGS), NoFm}

\* A file appears in the vault; the host emits create and has not parsed it.
ExtCreate(p, fm) ==
    /\ opsLeft > 0
    /\ p \notin DOMAIN vault
    /\ vault' = MapPut(vault, p, fm)
    /\ events' = Append(events, FileEvent("create", p, NoPath))
    /\ opsLeft' = opsLeft - 1
    /\ UNCHANGED <<cache, folderKind, index, data, settings, imp, saver, pureVars>>

\* A file is deleted; the host drops its cache entry and emits delete.
ExtDelete(p) ==
    /\ opsLeft > 0
    /\ p \in DOMAIN vault
    /\ vault' = [x \in DOMAIN vault \ {p} |-> vault[x]]
    /\ cache' = [x \in DOMAIN cache \ {p} |-> cache[x]]
    /\ events' = Append(events, FileEvent("delete", p, NoPath))
    /\ opsLeft' = opsLeft - 1
    /\ UNCHANGED <<folderKind, index, data, settings, imp, saver, pureVars>>

\* A file is renamed; what the host had parsed of it moves with it and the
\* host emits rename with the old path.
ExtRename(p, q) ==
    /\ opsLeft > 0
    /\ p \in DOMAIN vault
    /\ q \notin DOMAIN vault
    /\ vault' = [x \in (DOMAIN vault \ {p}) \cup {q} |-> IF x = q THEN vault[p] ELSE vault[x]]
    /\ cache' = IF p \in DOMAIN cache
                THEN [x \in (DOMAIN cache \ {p}) \cup {q} |-> IF x = q THEN cache[p] ELSE cache[x]]
                ELSE [x \in DOMAIN cache \ {q} |-> cache[x]]
    /\ events' = Append(events, FileEvent("rename", q, p))
    /\ opsLeft' = opsLeft - 1
    /\ UNCHANGED <<folderKind, index, data, settings, imp, saver, pureVars>>

\* The "Rebuild paper index" command: rebuild() and its persist.
RebuildCmd ==
    /\ \E o \in Orders(FilesUnderFolder(DOMAIN vault, settings)) :
          index' = rebuildIndex(o, cache)
    /\ data' = persist(index')
    /\ UNCHANGED <<vault, cache, folderKind, events, settings, imp, saver, opsLeft, pureVars>>

\* The "Confirm duplicate imports" toggle changes: the setting is assigned and
\* saveSettings starts, waiting for loadData.
SaveStart ==
    /\ opsLeft > 0
    /\ saver.pc = "idle"
    /\ settings' = [settings EXCEPT !.confirmDuplicateImports = ~@]
    /\ saver' = [saver EXCEPT !.pc = "loading"]
    /\ opsLeft' = opsLeft - 1
    /\ UNCHANGED <<vault, cache, folderKind, events, index, data, imp, pureVars>>

\* saveSettings: loadData resolves with the blob as it is now, and saveData is
\* called with the merge.
SaveRead ==
    /\ saver.pc = "loading"
    /\ saver' = [pc |-> "writing", existing |-> data]
    /\ UNCHANGED <<vault, cache, folderKind, events, index, data, settings, imp, opsLeft,
                   pureVars>>

\* saveSettings: the merged blob is written.
SaveWrite ==
    /\ saver.pc = "writing"
    /\ data' = MergedBlob(saver.existing, settings)
    /\ saver' = IdleSaver
    /\ UNCHANGED <<vault, cache, folderKind, events, index, settings, imp, opsLeft, pureVars>>

\* The plugin is loaded again (onload): loadSettings, then PaperIndex.load,
\* which rebuilds and persists when the loaded index is empty.
Reload ==
    /\ opsLeft > 0
    /\ saver.pc = "idle"
    /\ events = <<>>
    /\ settings' = loadSettings(data)
    /\ IF IndexIsEmpty(loadIndex(data))
       THEN /\ \E o \in Orders(FilesUnderFolder(DOMAIN vault, settings')) :
                 index' = rebuildIndex(o, cache)
            /\ data' = persist(index')
       ELSE /\ index' = loadIndex(data)
            /\ data' = data
    /\ opsLeft' = opsLeft - 1
    /\ UNCHANGED <<vault, cache, folderKind, events, imp, saver, pureVars>>

\* The vaults a session may start with: empty, or paper A's note, parsed.
StartVaults ==
    {EmptyMap,
     MapPut(EmptyMap, [dir |-> PapersFolder, name |-> <<"N","1">>],
            buildFrontmatter(PaperOf(BareDoiA), DEFAULT_SETTINGS))}

\* The plugin after onload with a freshly rebuilt index; the blob is what the
\* rebuild persisted.
InitVault ==
    /\ settings = DEFAULT_SETTINGS
    /\ folderKind = "folder"
    /\ vault \in StartVaults
    /\ cache = vault
    /\ events = <<>>
    /\ \E o \in Orders(FilesUnderFolder(DOMAIN vault, settings)) : index = rebuildIndex(o, cache)
    /\ data = persist(index)
    /\ imp = [i \in Imports |-> IdleImport]
    /\ saver = IdleSaver
    /\ opsLeft = MaxUserOps
    /\ PureIdle

NextVault ==
    \/ \E p \in VaultPaths, fm \in VaultFrontmatters : ExtCreate(p, fm)
    \/ \E p \in VaultPaths : ExtDelete(p)
    \/ \E p, q \in VaultPaths : ExtRename(p, q)
    \/ HandleEvent
    \/ \E p \in DOMAIN vault : CacheResolve(p)
    \/ RebuildCmd
    \/ SaveStart
    \/ SaveRead
    \/ SaveWrite
    \/ Reload

SpecVault == InitVault /\ [][NextVault]_vars

(***************************************************************************)
(* The DOI functions applied to bounded inputs                             *)
(***************************************************************************)

InitDoi ==
    /\ SysIdle
    /\ pin \in DoiInputs
    /\ pfun \in {"parseDoi", "normaliseDoi"}
    /\ pres = <<>>
    /\ query = [doi |-> <<>>, title |-> <<>>]
    /\ found = [type |-> "pending", path |-> NoPath]

LastArg == IF pres = <<>> THEN pin ELSE pres[Len(pres)]

ApplyParseDoi ==
    /\ pfun = "parseDoi"
    /\ Len(pres) < 2
    /\ pres' = Append(pres, parseDoi(LastArg))
    /\ UNCHANGED <<sysVars, pin, pfun, query, found>>

ApplyNormaliseDoi ==
    /\ pfun = "normaliseDoi"
    /\ Len(pres) < 2
    /\ pres' = Append(pres, normaliseDoi(LastArg))
    /\ UNCHANGED <<sysVars, pin, pfun, query, found>>

NextDoi == ApplyParseDoi \/ ApplyNormaliseDoi

SpecDoi == InitDoi /\ [][NextDoi]_vars

(***************************************************************************)
(* normalizePaper applied to partially populated records                   *)
(***************************************************************************)

\* The keys whose presence is drawn one by one; the other keys are present
\* together or missing together.
VariedKeys == {"title", "doi", "authors", "issn", "year", "month"}

StringValues == {JsStr(<<"T">>), JsStr(<<>>), JsNum(7), JsNull}

ArrayValues == {JsArr(<<>>), JsArr(<<JsStr(<<"J"," ","D">>)>>), JsArr(<<JsNum(3), JsNull>>), JsNull}

NumberValues == {JsNum(0), JsNum(2020), JsNull}

\* Partially populated records: which keys are there, and what the keys of
\* each declared type hold.
RawPapers ==
    {[k \in present \cup (IF others THEN PaperKeys \ VariedKeys ELSE {}) |->
        CASE k \in StringKeys -> sv
          [] k \in ArrayKeys -> av
          [] OTHER -> nv] :
        present \in SUBSET VariedKeys, others \in BOOLEAN,
        sv \in StringValues, av \in ArrayValues, nv \in NumberValues}

InitNorm ==
    /\ SysIdle
    /\ pin \in RawPapers
    /\ pfun = "normalizePaper"
    /\ pres = <<>>
    /\ query = [doi |-> <<>>, title |-> <<>>]
    /\ found = [type |-> "pending", path |-> NoPath]

ApplyNormalizePaper ==
    /\ pfun = "normalizePaper"
    /\ Len(pres) < 2
    /\ pres' = Append(pres, normalizePaper(LastArg))
    /\ UNCHANGED <<sysVars, pin, pfun, query, found>>

NextNorm == ApplyNormalizePaper

SpecNorm == InitNorm /\ [][NextNorm]_vars

(***************************************************************************)
(* buildFrontmatter applied to field lists and normalised papers           *)
(***************************************************************************)

MaxFields == 2

\* Names a user may type that fieldRenderers does not define.
UnknownNames == {"keywords", "toString", "__proto__"}

\* The comma-separated lists of at most MaxFields names.
FieldListsOfNames ==
    UNION {[1..n -> Vocabulary \cup UnknownNames] : n \in 0..MaxFields}

\* Normalised papers: every value there, none there, and the record of paper A.
FullPaper ==
    [k \in PaperKeys |->
        CASE k \in StringKeys -> <<"x">>
          [] k \in ArrayKeys -> << <<"S"," ","T">> >>
          [] OTHER -> <<2020>>]

NormalPapers == {SafePaper(FullPaper), SafePaper(EmptyMap), SafePaper(PaperOf(BareDoiA))}

InitFm ==
    /\ SysIdle
    /\ \E paper \in NormalPapers, fields \in FieldListsOfNames, date \in BOOLEAN :
          pin = [paper |-> paper,
                 st |-> [DEFAULT_SETTINGS EXCEPT !.metadataFields = fields,
                                                 !.includeImportDate = date]]
    /\ pfun = "buildFrontmatter"
    /\ pres = <<>>
    /\ query = [doi |-> <<>>, title |-> <<>>]
    /\ found = [type |-> "pending", path |-> NoPath]

ApplyBuildFrontmatter ==
    /\ pfun = "buildFrontmatter"
    /\ pres = <<>>
    /\ pres' = <<FrontmatterLines(pin.paper, pin.st)>>
    /\ UNCHANGED <<sysVars, pin, pfun, query, found>>

NextFm == ApplyBuildFrontmatter

SpecFm == InitFm /\ [][NextFm]_vars

(***************************************************************************)
(* renderFilenameTemplate applied to author tokens                         *)
(***************************************************************************)

AuthorTokens == {"{{authors}}", "{{first_authors}}", "{{first_author}}"}

\* Templates that hold one author token: alone, before the year, after the
\* title.
AuthorTemplates ==
    UNION {{<<tok>>, <<tok, "_", "{{year}}">>, <<"{{title}}", " ", tok>>} : tok \in AuthorTokens}

GivenNames == {<<"J">>, <<"J","a","n","e"," ","Q",".">>}

Surnames == {<<"D","o","e">>, <<"d","e","L">>}

\* What may follow the surname in the author string.
NameEndings == {<<>>, <<".">>, <<",">>, <<";">>, <<" ">>}

\* A paper with these authors, titled "T", of 2020.
PaperBy(authors) ==
    SafePaper([title |-> <<"T">>, authors |-> authors, year |-> <<2020>>, doi |-> BareDoiA])

InitTpl ==
    /\ SysIdle
    /\ \E template \in AuthorTemplates, given \in GivenNames, surname \in Surnames,
          ending \in NameEndings :
          pin = [template |-> template, surname |-> surname,
                 first |-> given \o <<" ">> \o surname \o ending]
    /\ pfun = "renderFilenameTemplate"
    /\ pres = <<>>
    /\ query = [doi |-> <<>>, title |-> <<>>]
    /\ found = [type |-> "pending", path |-> NoPath]

\* The template is rendered for the paper of the first author alone and for
\* the paper of the first author and a second one.
ApplyRenderFilename ==
    /\ pfun = "renderFilenameTemplate"
    /\ pres = <<>>
    /\ pres' = <<renderFilenameTemplate(pin.template, PaperBy(<<pin.first>>)),
                 renderFilenameTemplate(pin.template, PaperBy(<<pin.first, <<"L"," ","M">> >>))>>
    /\ UNCHANGED <<sysVars, pin, pfun, query, found>>

NextTpl == ApplyRenderFilename

SpecTpl == InitTpl /\ [][NextTpl]_vars

(***************************************************************************)
(* rebuild() on bounded vaults, run twice                                  *)
(***************************************************************************)

\* What the index may hold before a rebuild: nothing, or entries of an
\* earlier vault (a note that is gone, a file outside the folder).
PriorIndexes ==
    {EmptyIndex,
     [byDOI |-> MapPut(EmptyMap, normaliseDoi(BareDoiA), [dir |-> PapersFolder, name |-> <<"N","2">>]),
      byTitle |-> MapPut(EmptyMap, <<"z">>, [dir |-> InboxFolder, name |-> <<"N","1">>])],
     [byDOI |-> MapPut(EmptyMap, normaliseDoi(BareDoiB), [dir |-> PapersFolder, name |-> <<"N","1">>]),
      byTitle |-> MapPut(EmptyMap, <<"n","1">>, [dir |-> PapersFolder, name |-> <<"N","2">>])]}

\* The vaults rebuild() runs on: any of the three paths, each file with paper
\* A's frontmatter or with none.
RebuildVaults == UNION {[S -> VaultFrontmatters] : S \in SUBSET VaultPaths}

\* A loaded plugin with some index, a vault the host has parsed or has not
\* parsed at all, and no rebuild run yet; pin is the order in which getFiles()
\* enumerates the files of the folder.
InitRebuild ==
    /\ settings = DEFAULT_SETTINGS
    /\ folderKind = "folder"
    /\ vault \in RebuildVaults
    /\ cache \in {vault, EmptyMap}
    /\ events = <<>>
    /\ index \in PriorIndexes
    /\ data = persist(index)
    /\ imp = [i \in Imports |-> IdleImport]
    /\ saver = IdleSaver
    /\ opsLeft = 0
    /\ pin \in Orders(FilesUnderFolder(DOMAIN vault, settings))
    /\ pres = <<>>
    /\ pfun = "rebuild"
    /\ query = [doi |-> <<>>, title |-> <<>>]
    /\ found = [type |-> "pending", path |-> NoPath]

\* rebuild() runs, the first or the second time, on the unchanged vault; the
\* index it leaves is recorded.
RunRebuild ==
    /\ pfun = "rebuild"
    /\ Len(pres) < 2
    /\ index' = rebuildIndex(pin, cache)
    /\ data' = persist(index')
    /\ pres' = Append(pres, index')
    /\ UNCHANGED <<vault, cache, folderKind, events, settings, imp, saver, opsLeft,
                   pin, pfun, query, found>>

NextRebuild == RunRebuild

SpecRebuild == InitRebuild /\ [][NextRebuild]_vars

(***************************************************************************)
(* findDuplicate on bounded index states and queries                       *)
(***************************************************************************)

PartialMaps(keys, vals) == UNION {[S -> vals] : S \in SUBSET keys}

FindPaths == {Candidate(PapersFolder, <<"T">>, 0), Candidate(PapersFolder, <<"T">>, 1)}

FindIndexStates ==
    {[byDOI |-> d, byTitle |-> t] :
        d \in PartialMaps({normaliseDoi(BareDoiA), normaliseDoi(BareDoiB)}, FindPaths),
        t \in PartialMaps({<<"t">>, <<"t","?">>}, FindPaths)}

FindQueries ==
    {[doi |-> d, title |-> t] :
        d \in {<<>>, BareDoiA, SchemeHttps \o DoiOrgSlash \o BareDoiB,
               <<"1","0",".","9","/","z">>},
        t \in {<<>>, <<"T">>, <<" ","t","?"," ">>, <<"Z">>}}

InitFind ==
    /\ vault = EmptyMap
    /\ cache = EmptyMap
    /\ folderKind = "none"
    /\ events = <<>>
    /\ index \in FindIndexStates
    /\ data = EmptyMap
    /\ settings = DEFAULT_SETTINGS
    /\ imp = [i \in Imports |-> IdleImport]
    /\ saver = IdleSaver
    /\ opsLeft = 0
    /\ pin = <<>>
    /\ pres = <<>>
    /\ pfun = "none"
    /\ query \in FindQueries
    /\ found = [type |-> "pending", path |-> NoPath]

CallFindDuplicate ==
    /\ found.type = "pending"
    /\ found' = findDuplicate(index, query)
    /\ UNCHANGED <<sysVars, pin, pres, pfun, query>>

NextFind == CallFindDuplicate

SpecFind == InitFind /\ [][NextFind]_vars

(***************************************************************************)
(* Claims about the import flow                                            *)
(***************************************************************************)

SameDoi(i, j) == parseDoi(imp[i].input) = parseDoi(imp[j].input)

\* C1: with duplicate confirmation enabled, when the fetch of an import j
\* succeeds and an import i of the same DOI had completed, its create event
\* delivered, before j was submitted, j opens the duplicate prompt, tagged
\* "doi" and naming i's note, instead of writing.
C1_SecondImportPrompts ==
    [][\A j \in Imports : \A i \in imp[j].prior :
          (/\ imp[j].pc = "fetching"
           /\ imp'[j].status = 200
           /\ settings.confirmDuplicateImports
           /\ SameDoi(i, j))
          => /\ imp'[j].pc = "confirming"
             /\ imp'[j].dup = [type |-> "doi", path |-> imp[i].filePath]]_vars

\* C2: an import the user declines at the prompt ends cancelled with no path
\* picked and no success callback, and none of its steps (submit, fetch and
\* lookup, decline) changes the vault's files, the folder, the index mappings
\* or the emitted events.
C2_DeclineChangesNothing ==
    [][\A i \in Imports :
          /\ imp'[i].answer = "cancel"
                => /\ imp'[i].pc = "cancelled"
                   /\ imp'[i].filePath = NoPath
                   /\ imp'[i].opened = NoPath
          /\ (imp'[i] # imp[i] /\ imp'[i].pc \in {"fetching", "confirming", "cancelled"})
                => /\ imp[i].pc \in {"idle", "fetching", "confirming"}
                   /\ UNCHANGED <<vault, folderKind, index, events>>]_vars

\* An import was declined at a prompt that named a DOI duplicate.
C2_Witness ==
    \E i \in Imports :
        imp[i].pc = "cancelled" /\ imp[i].answer = "cancel" /\ imp[i].dup.type = "doi"

\* C3: an import whose fetch answered a status other than 200 is failed, its
\* notice is an error holding that status, it has picked no path and called no
\* success callback, and the step that took the answer left the vault, the
\* index and the emitted events as they were.
C3_NonOkFetchFails ==
    [][\A i \in Imports :
          imp'[i].status \notin {0, 200}
          => /\ imp'[i].pc = "failed"
             /\ imp'[i].notice.kind = "error"
             /\ imp'[i].notice.status = imp'[i].status
             /\ imp'[i].filePath = NoPath
             /\ imp'[i].opened = NoPath
             /\ imp[i].pc = "fetching" => UNCHANGED <<vault, folderKind, index, events>>]_vars

\* A fetch answered 404 and a fetch answered 500.
C3_Witness ==
    \E i, j \in Imports :
        /\ imp[i].status = 404 /\ imp[i].pc = "failed"
        /\ imp[j].status = 500 /\ imp[j].pc = "failed"

\* The mappings rebuild() would compute now, one per enumeration order.
RebuiltNow ==
    {rebuildIndex(o, cache) : o \in Orders(FilesUnderFolder(DOMAIN vault, settings))}

\* C4: once every emitted create, delete and rename event has been handled,
\* the index is one that rebuild() would compute from the vault as it is.
C4_IncrementalEqualsRebuild ==
    events = <<>> => index \in RebuiltNow

\* The title key indexFile derives for a file: its frontmatter title, or its
\* name without extension.
TitleKeyOf(p) == normalise(IF vault[p].title # <<>> THEN vault[p].title ELSE getFileTitle(p))

\* C5: when the handler of a rename event from oldPath to newPath has run, no
\* byDOI or byTitle entry maps to oldPath, and the renamed file's normalised
\* DOI and title, when not empty, map to newPath.
C5_RenameReindexes ==
    [][(/\ events # <<>>
        /\ Head(events).type = "rename"
        /\ events' = Tail(events))
       => LET old == Head(events).oldPath
              new == Head(events).path
          IN  /\ \A k \in DOMAIN index'.byDOI : index'.byDOI[k] # old
              /\ \A k \in DOMAIN index'.byTitle : index'.byTitle[k] # old
              /\ new \in DOMAIN vault
                   => /\ normaliseDoi(vault[new].doi) # <<>>
                        => /\ normaliseDoi(vault[new].doi) \in DOMAIN index'.byDOI
                           /\ index'.byDOI[normaliseDoi(vault[new].doi)] = new
                      /\ TitleKeyOf(new) # <<>>
                        => /\ TitleKeyOf(new) \in DOMAIN index'.byTitle
                           /\ index'.byTitle[TitleKeyOf(new)] = new]_vars

\* The file name createPaperNote renders for import i.
FilenameOf(i) == NoteFilename(SafePaper(PaperOf(imp[i].input)), settings)

\* C7: the path the writer picks for a file name X is the first of X.md,
\* X (1).md, X (2).md, ... at which no file exists (so successive writes of
\* the same name yield them in that order), and creating the note adds exactly
\* that path, which was free, and leaves every existing file as it was.
C7_FirstFreeCandidate ==
    [][\A i \in Imports :
          /\ (imp'[i].pc = "creating" /\ imp[i].pc # "creating")
                => \E n \in 0..Cardinality(DOMAIN vault) :
                      /\ imp'[i].filePath = Candidate(settings.paperFolder, FilenameOf(i), n)
                      /\ imp'[i].filePath \notin DOMAIN vault
                      /\ \A k \in 0..(n - 1) :
                            Candidate(settings.paperFolder, FilenameOf(i), k) \in DOMAIN vault
          /\ (imp'[i].pc = "done" /\ imp[i].pc # "done")
                => /\ imp[i].filePath \notin DOMAIN vault
                   /\ DOMAIN vault' = DOMAIN vault \cup {imp[i].filePath}
                   /\ \A p \in DOMAIN vault : vault'[p] = vault[p]]_vars

\* Two papers of different DOIs whose file names are equal were written after
\* an earlier note of that name: X.md, X (1).md and X (2).md exist.
C7_Witness ==
    /\ imp["i1"].pc = "done" /\ imp["i2"].pc = "done"
    /\ ~SameDoi("i1", "i2")
    /\ FilenameOf("i1") = FilenameOf("i2")
    /\ imp["i1"].filePath = Candidate(settings.paperFolder, FilenameOf("i1"), 1)
    /\ imp["i2"].filePath = Candidate(settings.paperFolder, FilenameOf("i1"), 2)
    /\ Candidate(settings.paperFolder, FilenameOf("i1"), 0) \in DOMAIN vault

\* C8: every step keeps each key the persisted blob has with its value unless
\* the step saves that key (a persist saves the index key, a settings save the
\* settings keys), the blob's index is always the index last persisted, after
\* a settings save the blob holds the settings, and loadSettings of the blob
\* has no index key.
C8_BlobSectionsNeverCollide ==
    [][/\ \A k \in DOMAIN data :
             /\ k \in DOMAIN data'
             /\ (k = "index" /\ index' = index) => data'[k] = data[k]
             /\ (k # "index" /\ saver.pc # "writing") => data'[k] = data[k]
       /\ "index" \in DOMAIN data' /\ data'["index"] = index'
       /\ (saver.pc = "writing" /\ saver'.pc = "idle")
             => \A k \in DOMAIN settings : k \in DOMAIN data' /\ data'[k] = settings[k]
       /\ "index" \notin DOMAIN loadSettings(data')]_vars

\* C18: once every emitted vault event has been handled, each key of byDOI and
\* of byTitle maps to the path of a file that is in the vault and lies in the
\* configured paper folder (a key has one path, the maps being functions).
C18_IndexedPathsAreFolderNotes ==
    events = <<>> =>
        /\ \A k \in DOMAIN index.byDOI :
              /\ index.byDOI[k] \in DOMAIN vault
              /\ index.byDOI[k].dir = settings.paperFolder
        /\ \A k \in DOMAIN index.byTitle :
              /\ index.byTitle[k] \in DOMAIN vault
              /\ index.byTitle[k].dir = settings.paperFolder

\* C19: when no vault event waits for its handler and no settings save is
\* under way, the persisted blob holds the index that is in memory.
C19_PersistedIndexIsMemoryIndex ==
    (events = <<>> /\ saver.pc = "idle") =>
        /\ "index" \in DOMAIN data
        /\ data["index"] = index

\* C22: a load (the step that takes a user operation and changes neither the
\* vault nor the settings save under way) rebuilds the index from the files
\* of the folder and persists it when the persisted byDOI and byTitle have no
\* key at all, and otherwise takes both persisted maps as they are and leaves
\* the blob alone.
C22_LoadRebuildsIffBothEmpty ==
    [][(opsLeft' # opsLeft /\ vault' = vault /\ saver' = saver) =>
          LET loaded == loadIndex(data)
              keys == Cardinality(DOMAIN loaded.byDOI) + Cardinality(DOMAIN loaded.byTitle)
          IN  IF keys = 0
              THEN /\ \E o \in Orders(FilesUnderFolder(DOMAIN vault, settings')) :
                         index' = rebuildIndex(o, cache)
                   /\ data' = persist(index')
              ELSE /\ index' = loaded
                   /\ data' = data]_vars

\* The index in memory is the persisted one and names, with no event left to
\* handle, a file that is not in the vault: a load took the persisted maps as
\* they were, a rebuild would not have that path.
C22_Witness ==
    /\ events = <<>>
    /\ saver.pc = "idle"
    /\ data["index"] = index
    /\ \E k \in DOMAIN index.byDOI : index.byDOI[k] \notin DOMAIN vault

\* The key -> path map in which each key some enumerated file derives maps to
\* the last enumerated file that derives it.
LastWins(order, Key(_)) ==
    [k \in {Key(order[n]) : n \in 1..Len(order)} \ {<<>>} |->
        order[SetMax({n \in 1..Len(order) : Key(order[n]) = k})]]

\* The keys indexFile derives for a file from what the host has parsed of it.
CachedDoiKey(p) == normaliseDoi(getFileCache(cache, p).doi)

CachedTitleKey(p) ==
    normalise(IF getFileCache(cache, p).title # <<>>
              THEN getFileCache(cache, p).title ELSE getFileTitle(p))

\* C23: whatever the index held before, the index rebuild() leaves maps each
\* normalised DOI and title that a file of the folder derives to the file
\* enumerated last among those deriving it, and has no other key; it is what
\* is persisted; and a second rebuild() of the unchanged vault leaves the same
\* maps as the first.
C23_RebuildIdempotentLastWins ==
    pres # <<>> =>
        /\ \A n \in 1..Len(pres) :
              /\ pres[n].byDOI = LastWins(pin, CachedDoiKey)
              /\ pres[n].byTitle = LastWins(pin, CachedTitleKey)
        /\ index = pres[Len(pres)]
        /\ data["index"] = index
        /\ Len(pres) = 2 => pres[1] = pres[2]

\* rebuild() has run twice over two parsed notes of the folder with the same
\* DOI, on an index that held other entries, and the DOI maps to the note
\* enumerated second.
C23_Witness ==
    /\ Len(pres) = 2
    /\ Len(pin) = 2
    /\ CachedDoiKey(pin[1]) # <<>>
    /\ CachedDoiKey(pin[1]) = CachedDoiKey(pin[2])
    /\ index.byDOI[CachedDoiKey(pin[1])] = pin[2]
    /\ <<"z">> \notin DOMAIN index.byTitle
    /\ \E p \in DOMAIN vault : p.dir = InboxFolder

\* C24: once every emitted vault event has been handled, findDuplicate finds
\* a match for the frontmatter DOI of every file of the paper folder that has
\* one.
C24_ExistingDoiIsFound ==
    events = <<>> =>
        \A p \in DOMAIN vault :
            (p.dir = settings.paperFolder /\ vault[p].doi # <<>>)
                => findDuplicate(index, [doi |-> vault[p].doi, title |-> <<>>]) # NoDup

(***************************************************************************)
(* Claims about the order of an import's steps and its failures            *)
(***************************************************************************)

\* The elements of a sequence.
Range(seq) == {seq[i] : i \in 1..Len(seq)}

StepOrder == <<"fetch", "lookup", "prompt", "write">>

\* The position of a step in StepOrder.
StepRank(step) == CHOOSE k \in 1..Len(StepOrder) : StepOrder[k] = step

\* C14: the steps an import has started are fetch, lookup, prompt, write in
\* that order, each at most once; the lookup is there only after the fetch
\* answered 200, the write only after the lookup, a fetch only for an input
\* that is not blank; and an import that has failed, was cancelled or is done
\* takes no further step.
C14_StepsInOrderOnce ==
    [][\A i \in Imports :
          LET st == imp'[i].steps
          IN  /\ \A k \in 1..Len(st) : st[k] \in Range(StepOrder)
              /\ \A k, l \in 1..Len(st) : k < l => StepRank(st[k]) < StepRank(st[l])
              /\ (st # <<>>) => st[1] = "fetch" /\ Trim(imp'[i].input) # <<>>
              /\ (st = <<>>) => imp'[i].status = 0 /\ imp'[i].pc = "idle"
              /\ ("lookup" \in Range(st)) => imp'[i].status = 200
              /\ ("prompt" \in Range(st)) => "lookup" \in Range(st)
              /\ ("write" \in Range(st)) => "lookup" \in Range(st)
              /\ (imp[i].pc \in {"failed", "cancelled", "done"}) => imp'[i] = imp[i]]_vars

\* An import went through all four steps and is done, and a blank input was
\* submitted without a fetch.
C14_Witness ==
    /\ imp["i1"].steps = StepOrder
    /\ imp["i1"].pc = "done"
    /\ imp["i2"].pc = "idle"
    /\ imp["i2"].notice.text = "Please enter a DOI."

\* C15: a write that meets a file at the folder path, or whose vault.create
\* throws, fails the import; an import that failed in its write shows an error
\* notice and has called no success callback; the failing step creates no file;
\* and no step of an import changes the index mappings.
C15_WriteFailureLeavesNothing ==
    [][\A i \in Imports :
          LET wrote == "write" \in Range(imp'[i].steps)
          IN  /\ (imp[i].pc \in {"fetching", "confirming"} /\ wrote /\ folderKind = "file")
                    => imp'[i].pc = "failed"
              /\ (imp[i].pc = "creating" /\ imp'[i] # imp[i] /\ vault' = vault)
                    => imp'[i].pc = "failed"
              /\ (imp'[i].pc = "failed" /\ wrote)
                    => /\ imp'[i].notice.kind = "error"
                       /\ imp'[i].opened = NoPath
                       /\ imp'[i] # imp[i] => vault' = vault
              /\ imp'[i] # imp[i] => index' = index /\ data' = data]_vars

\* An import failed because vault.create threw: the folder is there and the
\* path it had picked holds no file.
C15_Witness ==
    \E i \in Imports :
        /\ imp[i].pc = "failed"
        /\ "write" \in Range(imp[i].steps)
        /\ imp[i].filePath # NoPath
        /\ imp[i].filePath \notin DOMAIN vault
        /\ folderKind = "folder"

\* C21: the step that takes a 200 answer shows the prompt exactly when
\* findDuplicate finds a match in the index and confirmDuplicateImports is on,
\* and otherwise starts the write without a prompt; the step that takes the
\* user's answer starts the write exactly when the answer is to import anyway;
\* so an import that was prompted has started its write only after an accept.
C21_PromptIffDuplicateAndEnabled ==
    [][\A i \in Imports :
          LET r == imp'[i]
              paper == PaperOf(imp[i].input)
              dup == findDuplicate(index, [doi |-> paper.doi, title |-> paper.title])
              prompted == "prompt" \in Range(r.steps)
              writing == "write" \in Range(r.steps)
          IN  /\ (imp[i].pc = "fetching" /\ r.pc # "fetching" /\ r.status = 200) =>
                    /\ prompted <=> (dup # NoDup /\ settings.confirmDuplicateImports)
                    /\ prompted => r.pc = "confirming" /\ r.dup = dup /\ ~writing
                    /\ ~prompted => writing /\ r.answer = "none"
              /\ (imp[i].pc = "confirming" /\ r.pc # "confirming") =>
                    /\ writing <=> r.answer = "accept"
                    /\ ~writing => r.pc = "cancelled"
              /\ (prompted /\ writing) => r.answer = "accept"]_vars

\* An import was prompted, the user chose to import anyway, and the note was
\* written.
C21_Witness ==
    \E i \in Imports :
        /\ imp[i].pc = "done"
        /\ imp[i].answer = "accept"
        /\ "prompt" \in Range(imp[i].steps)
        /\ imp[i].filePath \in DOMAIN vault
        /\ settings.confirmDuplicateImports

\* C25: with confirmDuplicateImports on, the step in which vault.create makes
\* an import's note finds the paper's DOI in byDOI only if the user accepted
\* the duplicate prompt of that import.
C25_NoUnpromptedDuplicateNote ==
    [][\A i \in Imports :
          (/\ settings.confirmDuplicateImports
           /\ imp[i].pc = "creating"
           /\ imp'[i].pc = "done"
           /\ normaliseDoi(PaperOf(imp[i].input).doi) \in DOMAIN index.byDOI)
              => imp[i].answer = "accept"]_vars

\* C26: an import that shows the duplicate prompt eventually is cancelled,
\* done or failed, however the user dismisses the prompt.
C26_PromptAlwaysResolves ==
    \A i \in Imports :
        (imp[i].pc = "confirming") ~> (imp[i].pc \in {"cancelled", "done", "failed"})

C20_ConcurrentImportsGetDistinctPaths ==
    /\ \A i, j \in Imports :
          (i # j /\ imp[i].filePath # NoPath /\ imp[j].filePath # NoPath)
              => imp[i].filePath # imp[j].filePath
    /\ \A i \in Imports :
          imp[i].notice.text # "Error importing paper: File already exists."

(***************************************************************************)
(* Claims about the normaliser and the renderer                            *)
(***************************************************************************)

\* Every key is there with a value of its declared type.
WellTyped(n) ==
    /\ DOMAIN n = PaperKeys
    /\ Cardinality(PaperKeys) = 15
    /\ \A k \in StringKeys : n[k].t = "string"
    /\ \A k \in ArrayKeys :
          n[k].t = "array" /\ \A i \in 1..Len(n[k].a) : n[k].a[i].t = "string"
    /\ \A k \in NumberKeys : n[k].t \in {"number", "null"}

\* C11: normalizePaper of a partially populated record has all fifteen keys,
\* a string at every string key, a sequence of strings at every array key and
\* a number or null at year and month, and normalising the result again
\* yields the same record.
C11_NormalizeTotalIdempotent ==
    /\ Len(pres) >= 1 => WellTyped(pres[1])
    /\ Len(pres) = 2 => pres[2] = pres[1]

\* A record that lacks keys, with a number at a string key and a number and
\* null inside its arrays, was normalised twice.
C11_Witness ==
    /\ Len(pres) = 2
    /\ DOMAIN pin = {"title", "authors", "year"}
    /\ pin["title"] = JsNum(7)
    /\ pin["authors"] = JsArr(<<JsNum(3), JsNull>>)
    /\ pres[1]["title"] = JsStr(<<"7">>)
    /\ pres[1]["authors"] = JsArr(<<JsStr(<<"3">>), JsStr(<<"n","u","l","l">>)>>)
    /\ pres[1]["doi"] = JsStr(<<>>)

\* The keys the claim expects: the configured names of the vocabulary whose
\* source value is not empty, and date_imported when enabled.
ExpectedKeys(paper, st) ==
    {f \in Range(st.metadataFields) \cap Vocabulary : Renders(f, paper)}
        \cup (IF st.includeImportDate THEN {"date_imported"} ELSE {})

\* C12: buildFrontmatter returns, and the keys of the lines it emits are the
\* configured names of the vocabulary whose source value is not empty, plus
\* date_imported exactly when the import date is enabled; a name outside the
\* vocabulary emits nothing.
C12_EmittedKeysAreConfigured ==
    (pfun = "buildFrontmatter" /\ pres # <<>>)
        => /\ ~pres[1].threw
           /\ Range(pres[1].lines) = ExpectedKeys(pin.paper, pin.st)

ExamplePath ==
    [dir |-> PapersFolder, name |-> <<"E","x","a","m","p","l","e"," ","P","a","p","e","r">>]

\* C13: with the default settings, an import of the example DOI that has
\* written the only file of the vault wrote it at Papers/Example Paper.md, and
\* the frontmatter holds the title, authors, year and doi lines and the
\* record's title and DOI.
C13_ExampleNoteAtTitlePath ==
    (/\ settings = DEFAULT_SETTINGS
     /\ imp["i1"].pc = "done"
     /\ imp["i1"].input = ExampleDoi
     /\ DOMAIN vault = {imp["i1"].filePath})
    => /\ imp["i1"].filePath = ExamplePath
       /\ vault[ExamplePath] = [doi |-> ExampleDoi, title |-> ExamplePath.name]
       /\ {"title", "authors", "year", "doi"}
             \subseteq Range(FrontmatterLines(SafePaper(PaperOf(ExampleDoi)), settings).lines)

\* The template with its author token replaced by a text.
WithAuthor(template, text) ==
    LET piece(k) == CASE template[k] \in AuthorTokens -> text
                      [] template[k] = "{{year}}" -> <<"2","0","2","0">>
                      [] template[k] = "{{title}}" -> <<"T">>
                      [] OTHER -> <<template[k]>>
        F[k \in 0..Len(template)] == IF k = 0 THEN <<>> ELSE F[k - 1] \o piece(k)
    IN  F[Len(template)]

\* C16: an author token renders as the first author's surname, and the name
\* rendered for the paper with a second author differs from the name rendered
\* for the paper of the first author alone.
C16_AuthorTokenTellsMultiAuthor ==
    (pfun = "renderFilenameTemplate" /\ pres # <<>>)
        => /\ pres[1] = WithAuthor(pin.template, pin.surname)
           /\ pres[2] # pres[1]

(***************************************************************************)
(* Claims about the DOI functions and findDuplicate                        *)
(***************************************************************************)

DoiHit == normaliseDoi(query.doi) # <<>> /\ normaliseDoi(query.doi) \in DOMAIN index.byDOI

TitleHit == normalise(query.title) # <<>> /\ normalise(query.title) \in DOMAIN index.byTitle

IsBareIdentifier(d) ==
    /\ d # <<>>
    /\ \A i \in 1..Len(d) : ~IsSpace(d[i])
    /\ \A i \in 1..Len(d) : ~MatchAtNoCase(d, DoiOrgSlash, i) /\ ~MatchAtNoCase(d, DoiColon, i)

OnePrefixForms ==
    {<<>>, DoiColon, DoiOrgSlash, DxDot \o DoiOrgSlash,
     SchemeHttps \o DoiOrgSlash, SchemeHttps \o DxDot \o DoiOrgSlash,
     SchemeHttp \o DoiOrgSlash, SchemeHttp \o DxDot \o DoiOrgSlash}

SimpleForm(x) ==
    \E p \in OnePrefixForms :
        /\ MatchAtNoCase(Trim(x), p, 1)
        /\ IsBareIdentifier(DropFirst(Trim(x), Len(p)))

\* C9 as claimed: for every input x, applying parseDoi (normaliseDoi) to its own
\* result changes nothing.
C9_IdempotentOnEveryInput == Len(pres) = 2 => pres[2] = pres[1]

\* C9 as amended: for every input made of at most one DOI-URL or "doi:" prefix
\* and a bare identifier, with white space around it, parseDoi(parseDoi(x)) =
\* parseDoi(x) and normaliseDoi(normaliseDoi(x)) = normaliseDoi(x).
C9_IdempotentOnSimpleForms == (SimpleForm(pin) /\ Len(pres) = 2) => pres[2] = pres[1]

\* A prefixed input whose prefix normaliseDoi stripped, normalised twice.
C9_Witness ==
    /\ pfun = "normaliseDoi"
    /\ SimpleForm(pin)
    /\ Len(pres) = 2
    /\ Len(pres[1]) < Len(Trim(pin))

\* C10: parseDoi maps "https://doi.org/" + d, "doi:" + d and d itself to d.
C10_ParseDoiThreeForms ==
    (pfun = "parseDoi" /\ Len(pres) >= 1) =>
        \A d \in BareDois :
            pin \in {SchemeHttps \o DoiOrgSlash \o d, DoiColon \o d, d} => pres[1] = d

====
